---- MODULE Spec2Model ----
(***************************************************************************)
(* A model of src/lib.rs of tpctools: convert_to_parquet, move_or_copy,    *)
(* is_same_device and convert_tbl.  The file system under the output root  *)
(* is the state; every fallible file-system or engine call of the source   *)
(* is one step whose outcome (success or an error) is chosen by the        *)
(* environment.                                                            *)
(***************************************************************************)
EXTENDS Integers, Sequences, FiniteSets, TLC

\* ------------------------------------------------------------------ bounds
\* the largest number of input files found under one table's input directory
MaxFiles == 2
\* the largest number of part files the writer emits for one input file
MaxParts == 2
\* the largest number of declared columns of a table schema
MaxCols == 3

\* ------------------------------------------------------------ the benchmark
\* Tpc::get_table_names: the tables of the benchmark, in declared order
get_table_names == <<"nation", "region">>

NumTables == Len(get_table_names)
Tables == 1..NumTables
FileIds == 1..MaxFiles
PartIds == 1..MaxParts

\* the part files found in an output directory that exists before the run
OldParts == {[n |-> 0, st |-> "old"]}

\* the column "__placeholder" convert_to_parquet appends to absorb the trailing
\* delimiter; the columns a catalog declares are named 1, 2, ...
Placeholder == 0
ColumnNames == 1..MaxCols

\* all orders in which a directory listing can return the entries S
Perms(S) == {s \in [1..Cardinality(S) -> S] : \A i, j \in 1..Cardinality(S) : s[i] = s[j] => i = j}

\* all sequences without repetition of at most n columns
Schemas(n) == UNION {Perms(C) : C \in {D \in SUBSET ColumnNames : Cardinality(D) <= n}}

VARIABLES
  outPre,       \* outPre[t]: {output_path}/{table}.parquet exists before the run
  inputKind,    \* inputKind[t]: what {input_path}/{table}.{ext} is: absent, file, dir
  outExists,    \* outExists[t]: the table's output directory exists
  outParts,     \* outParts[t]: the part-n.parquet entries of the output directory
  tempDirs,     \* tempDirs[t]: the input files whose {stub}-temp.parquet exists
  tempParts,    \* tempParts[t][f]: the entries inside that temp area
  cur,          \* index of the table the for loop of line 50 is at
  pc,           \* position inside the loop body
  file_vec,     \* file_vec of line 80
  fi,           \* index into file_vec of the for loop of line 90
  part,         \* part of line 89
  listing,      \* entries the iterator `paths` of line 110 has not yet returned
  entry,        \* the entry `path` of line 112 being relocated (0: none)
  dest,         \* the number in dest_file of line 113
  result,       \* running, or what convert_to_parquet returned
  produced,     \* history: produced[f], parts the writer completed for file f of table cur
  producedTotal,\* history: producedTotal[t], parts the writer completed for table t
  placedFile,   \* history: <<n, f>> for each relocation of table cur that reached part-n
  flattenStart, \* history: value of part when the current flatten loop was entered
  snapshot,     \* history: the entries of the temp area when it was listed
  moved,        \* history: <<k, n>> in order, relocations attempted by the current flatten
  lastMove,     \* history: the last return of move_or_copy and its device check
  tableDone,    \* history: tables whose loop body ran to its end
  declared,     \* convert_tbl check: the table's declared columns
  readSchema,   \* convert_tbl check: the schema inside CsvReadOptions
  fmt,          \* convert_tbl check: file_format argument
  codec,        \* convert_tbl check: compression argument
  tblOut,       \* convert_tbl check: columns written, or <<>> when nothing was
  tblRead,      \* convert_tbl check: read_csv of line 185 has been run on the input
  tblPc         \* convert_tbl check: position

fsVars == <<outExists, outParts, tempDirs, tempParts>>
envVars == <<outPre, inputKind>>
loopVars == <<cur, pc, file_vec, fi, part, listing, entry, dest, result>>
histVars == <<produced, producedTotal, placedFile, flattenStart, snapshot, moved, lastMove, tableDone>>
tblVars == <<declared, readSchema, fmt, codec, tblOut, tblRead, tblPc>>
vars == <<fsVars, envVars, loopVars, histVars, tblVars>>

\* ----------------------------------------------------------- pure helpers
\* lines 53-55: SchemaBuilder::from(fields), push(__placeholder), finish()
BuildReadSchema(s) == Append(s, Placeholder)

\* lines 187-195: the fields of the read schema, .take(len - 1)
Selection(s) == SubSeq(s, 1, Len(s) - 1)

\* lines 199-229: the match on file_format and compression
FormatResult(f, c) ==
  IF f = "csv" THEN "Ok"
  ELSE IF f = "parquet" THEN (IF c \in {"none", "snappy", "lz4", "lz0"} THEN "Ok" ELSE "NotImplemented")
  ELSE "NotImplemented"

\* the numbers n of the part-n.parquet entries of a directory
Numbers(ps) == {p.n : p \in ps}

\* writing part-n with state st: a rename or a copy replaces an existing part-n
PutPart(ps, n, st) == {p \in ps : p.n # n} \cup {[n |-> n, st |-> st]}

NoMove == [ret |-> "none", step |-> "none", dev |-> "none"]

\* a slip in line 114: the counter is not advanced
NextPartStuck(p) == p

\* a slip in line 114: the counter is advanced by two
NextPartSkip(p) == p + 2

\* line 114: part += 1
NextPart(p) == p + 1

\* the input file the loop of line 90 is at
CurFile == file_vec[fi]

\* a slip in the propagation: the error is noted and the loop goes on
FailContinue(kind) == result' = kind /\ pc' = "next_file"

\* a `?` that propagates an Err, or a panic: convert_to_parquet stops here
Fail(kind) == result' = kind /\ pc' = "stopped"

\* ------------------------------------------------------------------- Init
Init ==
  /\ outPre \in [Tables -> BOOLEAN]
  /\ inputKind \in [Tables -> {"absent", "file", "dir"}]
  /\ outExists = outPre
  /\ outParts = [t \in Tables |-> IF outPre[t] THEN OldParts ELSE {}]
  /\ tempDirs = [t \in Tables |-> {}]
  /\ tempParts = [t \in Tables |-> [f \in FileIds |-> {}]]
  /\ cur = 1
  /\ pc = "validate"
  /\ file_vec = <<>>
  /\ fi = 1
  /\ part = 0
  /\ listing = {}
  /\ entry = 0
  /\ dest = 0
  /\ result = "running"
  /\ produced = [f \in FileIds |-> {}]
  /\ producedTotal = [t \in Tables |-> 0]
  /\ placedFile = {}
  /\ flattenStart = 0
  /\ snapshot = {}
  /\ moved = <<>>
  /\ lastMove = NoMove
  /\ tableDone = {}
  /\ declared = <<>>
  /\ readSchema = <<>>
  /\ fmt = "parquet"
  /\ codec = "snappy"
  /\ tblOut = <<>>
  /\ tblRead = FALSE
  /\ tblPc = "idle"

\* ------------------------------------------------ convert_to_parquet steps
\* a slip in lines 73-75: the check of the output directory is left out
ValidateNoOutputCheck ==
  /\ pc = "validate"
  /\ \/ /\ inputKind[cur] = "absent"
        /\ Fail("PreconditionError")
     \/ /\ inputKind[cur] # "absent"
        /\ pc' = "create_dir"
        /\ result' = result
  /\ UNCHANGED <<fsVars, envVars, histVars, tblVars>>
  /\ UNCHANGED <<cur, file_vec, fi, part, listing, entry, dest>>

\* lines 64-75: the two existence checks, each a panic
Validate ==
  /\ pc = "validate"
  /\ \/ /\ inputKind[cur] = "absent"
        /\ Fail("PreconditionError")
     \/ /\ inputKind[cur] # "absent"
        /\ outExists[cur]
        /\ Fail("PreconditionError")
     \/ /\ inputKind[cur] # "absent"
        /\ ~outExists[cur]
        /\ pc' = "create_dir"
        /\ result' = result
  /\ UNCHANGED <<fsVars, envVars, histVars, tblVars>>
  /\ UNCHANGED <<cur, file_vec, fi, part, listing, entry, dest>>

\* line 77: fs::create_dir(&output_dir)?, an Err when the directory exists
CreateDir ==
  /\ pc = "create_dir"
  /\ \/ /\ ~outExists[cur]
        /\ outExists' = [outExists EXCEPT ![cur] = TRUE]
        /\ pc' = "read_input"
        /\ result' = result
     \/ /\ Fail("IoError")
        /\ outExists' = outExists
  /\ UNCHANGED <<outParts, tempDirs, tempParts, envVars, histVars, tblVars>>
  /\ UNCHANGED <<cur, file_vec, fi, part, listing, entry, dest>>

\* lines 79-89: is_dir, read_dir and the collection of its entries; part = 0
ReadInput ==
  /\ pc = "read_input"
  /\ \/ /\ inputKind[cur] = "dir"
        /\ \E n \in 0..MaxFiles : \E fv \in Perms(1..n) : file_vec' = fv
        /\ pc' = "next_file"
        /\ result' = result
     \/ /\ inputKind[cur] = "dir"
        /\ Fail("IoError")
        /\ file_vec' = file_vec
     \/ /\ inputKind[cur] # "dir"
        /\ file_vec' = <<>>
        /\ pc' = "next_file"
        /\ result' = result
  /\ fi' = 1
  /\ part' = 0
  /\ UNCHANGED <<fsVars, envVars, histVars, tblVars>>
  /\ UNCHANGED <<cur, listing, entry, dest>>

\* line 90 loop head; past the last file: the end of the body of the loop of line 50
\* and, past the last table, line 123
NextFile ==
  /\ pc = "next_file"
  /\ \/ /\ fi <= Len(file_vec)
        /\ pc' = "write"
        /\ UNCHANGED <<cur, file_vec, fi, part, result, tableDone, produced, placedFile, flattenStart>>
     \/ /\ fi > Len(file_vec)
        /\ cur < NumTables
        /\ cur' = cur + 1
        /\ pc' = "validate"
        /\ file_vec' = <<>>
        /\ fi' = 1
        /\ part' = 0
        /\ tableDone' = tableDone \cup {cur}
        /\ produced' = [f \in FileIds |-> {}]
        /\ placedFile' = {}
        /\ flattenStart' = 0
        /\ result' = result
     \/ /\ fi > Len(file_vec)
        /\ cur = NumTables
        /\ tableDone' = tableDone \cup {cur}
        /\ result' = "Ok"
        /\ pc' = "stopped"
        /\ UNCHANGED <<cur, file_vec, fi, part, produced, placedFile, flattenStart>>
  /\ UNCHANGED <<listing, entry, dest, snapshot, moved, lastMove>>
  /\ UNCHANGED <<fsVars, envVars, tblVars, producedTotal>>

\* lines 91-107 and 164-233: convert_tbl(file, output_parts_dir, options, "parquet",
\* "snappy", 8192): read_csv, select, the match on the format, write_parquet
Write ==
  /\ pc = "write"
  /\ \/ /\ Fail("EngineError")
        /\ UNCHANGED <<tempDirs, tempParts, produced, producedTotal>>
     \/ /\ IF FormatResult("parquet", "snappy") = "Ok"
           THEN \E np \in PartIds :
                  /\ tempDirs' = [tempDirs EXCEPT ![cur] = @ \cup {CurFile}]
                  /\ tempParts' = [tempParts EXCEPT ![cur][CurFile] = 1..np]
                  /\ produced' = [produced EXCEPT ![CurFile] = 1..np]
                  /\ producedTotal' = [producedTotal EXCEPT ![cur] = @ + np]
                  /\ pc' = "list"
                  /\ result' = result
           ELSE /\ Fail("ConfigurationError")
                /\ UNCHANGED <<tempDirs, tempParts, produced, producedTotal>>
     \/ /\ FormatResult("parquet", "snappy") = "Ok"
        /\ \E np \in 0..(MaxParts - 1) :
             /\ tempDirs' = [tempDirs EXCEPT ![cur] = @ \cup {CurFile}]
             /\ tempParts' = [tempParts EXCEPT ![cur][CurFile] = 1..np]
             /\ produced' = [produced EXCEPT ![CurFile] = 1..np]
             /\ producedTotal' = [producedTotal EXCEPT ![cur] = @ + np]
        /\ Fail("EngineError")
  /\ UNCHANGED <<outExists, outParts, envVars, tblVars>>
  /\ UNCHANGED <<cur, file_vec, fi, part, listing, entry, dest>>
  /\ UNCHANGED <<placedFile, flattenStart, snapshot, moved, lastMove, tableDone>>

\* a slip in line 89: the counter is declared inside the loop over the input files
ListResetPart ==
  /\ pc = "list"
  /\ \/ /\ listing' = tempParts[cur][CurFile]
        /\ snapshot' = tempParts[cur][CurFile]
        /\ part' = 0
        /\ flattenStart' = 0
        /\ moved' = <<>>
        /\ pc' = "flatten"
        /\ result' = result
     \/ /\ Fail("IoError")
        /\ UNCHANGED <<listing, snapshot, part, flattenStart, moved>>
  /\ UNCHANGED <<fsVars, envVars, tblVars>>
  /\ UNCHANGED <<cur, file_vec, fi, entry, dest>>
  /\ UNCHANGED <<produced, producedTotal, placedFile, lastMove, tableDone>>

\* line 110: fs::read_dir(&output_parts_dir)?
List ==
  /\ pc = "list"
  /\ \/ /\ listing' = tempParts[cur][CurFile]
        /\ snapshot' = tempParts[cur][CurFile]
        /\ flattenStart' = part
        /\ moved' = <<>>
        /\ pc' = "flatten"
        /\ result' = result
     \/ /\ Fail("IoError")
        /\ UNCHANGED <<listing, snapshot, flattenStart, moved>>
  /\ UNCHANGED <<fsVars, envVars, tblVars>>
  /\ UNCHANGED <<cur, file_vec, fi, part, entry, dest>>
  /\ UNCHANGED <<produced, producedTotal, placedFile, lastMove, tableDone>>

\* a slip in line 112: an entry whose `path` is an Err is skipped, not propagated
FlattenNextSkip ==
  /\ pc = "flatten"
  /\ \/ /\ listing = {}
        /\ pc' = "remove_temp"
        /\ UNCHANGED <<listing, entry, dest, part, moved, lastMove>>
     \/ /\ \E k \in listing :
             /\ entry' = k
             /\ listing' = listing \ {k}
             /\ moved' = Append(moved, <<k, part>>)
        /\ dest' = part
        /\ part' = NextPart(part)
        /\ lastMove' = NoMove
        /\ pc' = "same_device"
     \/ /\ \E k \in listing : listing' = listing \ {k}
        /\ pc' = "flatten"
        /\ UNCHANGED <<entry, dest, part, moved, lastMove>>
  /\ result' = result
  /\ UNCHANGED <<fsVars, envVars, tblVars>>
  /\ UNCHANGED <<cur, file_vec, fi>>
  /\ UNCHANGED <<produced, producedTotal, placedFile, flattenStart, snapshot, tableDone>>

\* lines 111-115: the iterator's next entry, `path?`, dest_file and part += 1;
\* the iterator returns the entries in an order the file system chooses
FlattenNext ==
  /\ pc = "flatten"
  /\ \/ /\ listing = {}
        /\ pc' = "remove_temp"
        /\ result' = result
        /\ UNCHANGED <<listing, entry, dest, part, moved, lastMove>>
     \/ /\ \E k \in listing :
             /\ entry' = k
             /\ listing' = listing \ {k}
             /\ moved' = Append(moved, <<k, part>>)
        /\ dest' = part
        /\ part' = NextPart(part)
        /\ lastMove' = NoMove
        /\ pc' = "same_device"
        /\ result' = result
     \/ /\ listing # {}
        /\ Fail("IoError")
        /\ UNCHANGED <<listing, entry, dest, part, moved, lastMove>>
  /\ UNCHANGED <<fsVars, envVars, tblVars>>
  /\ UNCHANGED <<cur, file_vec, fi>>
  /\ UNCHANGED <<produced, producedTotal, placedFile, flattenStart, snapshot, tableDone>>

\* ------------------------------------------------------ move_or_copy steps
\* lines 130 and 149-154: is_same_device(source, dest)?: the device of the entry
\* against the device of the output directory, or the Err of fs::metadata
IsSameDevice ==
  /\ pc = "same_device"
  /\ \/ /\ pc' = "rename"
        /\ lastMove' = [lastMove EXCEPT !.dev = "same"]
        /\ result' = result
     \/ /\ pc' = "copy"
        /\ lastMove' = [lastMove EXCEPT !.dev = "different"]
        /\ result' = result
     \/ /\ Fail("IoError")
        /\ lastMove' = [ret |-> "Err", step |-> "device", dev |-> "Err"]
  /\ UNCHANGED <<fsVars, envVars, tblVars>>
  /\ UNCHANGED <<cur, file_vec, fi, part, listing, entry, dest>>
  /\ UNCHANGED <<produced, producedTotal, placedFile, flattenStart, snapshot, moved, tableDone>>

\* line 136: fs::rename(source, dest), the return value of move_or_copy
Rename ==
  /\ pc = "rename"
  /\ \/ /\ tempParts' = [tempParts EXCEPT ![cur][CurFile] = @ \ {entry}]
        /\ outParts' = [outParts EXCEPT ![cur] = PutPart(@, dest, "complete")]
        /\ placedFile' = {q \in placedFile : q[1] # dest} \cup {<<dest, CurFile>>}
        /\ lastMove' = [ret |-> "Ok", step |-> "rename", dev |-> lastMove.dev]
        /\ pc' = "flatten"
        /\ result' = result
     \/ /\ Fail("IoError")
        /\ lastMove' = [ret |-> "Err", step |-> "rename", dev |-> lastMove.dev]
        /\ UNCHANGED <<tempParts, outParts, placedFile>>
  /\ UNCHANGED <<outExists, tempDirs, envVars, tblVars>>
  /\ UNCHANGED <<cur, file_vec, fi, part, listing, entry, dest>>
  /\ UNCHANGED <<produced, producedTotal, flattenStart, snapshot, moved, tableDone>>

\* a slip in lines 143-144: the source is removed before the copy is known to
\* have succeeded
CopyRemoveFirst ==
  /\ pc = "copy"
  /\ tempParts' = [tempParts EXCEPT ![cur][CurFile] = @ \ {entry}]
  /\ \/ /\ outParts' = [outParts EXCEPT ![cur] = PutPart(@, dest, "complete")]
        /\ placedFile' = {q \in placedFile : q[1] # dest} \cup {<<dest, CurFile>>}
        /\ lastMove' = [ret |-> "Ok", step |-> "remove", dev |-> lastMove.dev]
        /\ pc' = "flatten"
        /\ result' = result
     \/ /\ Fail("IoError")
        /\ lastMove' = [ret |-> "Err", step |-> "copy", dev |-> lastMove.dev]
        /\ UNCHANGED <<outParts, placedFile>>
  /\ UNCHANGED <<outExists, tempDirs, envVars, tblVars>>
  /\ UNCHANGED <<cur, file_vec, fi, part, listing, entry, dest>>
  /\ UNCHANGED <<produced, producedTotal, flattenStart, snapshot, moved, tableDone>>

\* line 143: fs::copy(source, dest)?: on an error the destination is either not
\* created or left with the bytes written so far
Copy ==
  /\ pc = "copy"
  /\ \/ /\ outParts' = [outParts EXCEPT ![cur] = PutPart(@, dest, "complete")]
        /\ placedFile' = {q \in placedFile : q[1] # dest} \cup {<<dest, CurFile>>}
        /\ pc' = "remove_file"
        /\ UNCHANGED <<result, lastMove>>
     \/ /\ Fail("IoError")
        /\ lastMove' = [ret |-> "Err", step |-> "copy", dev |-> lastMove.dev]
        /\ UNCHANGED <<outParts, placedFile>>
     \/ /\ Fail("IoError")
        /\ lastMove' = [ret |-> "Err", step |-> "copy", dev |-> lastMove.dev]
        /\ outParts' = [outParts EXCEPT ![cur] = PutPart(@, dest, "partial")]
        /\ placedFile' = {q \in placedFile : q[1] # dest} \cup {<<dest, CurFile>>}
  /\ UNCHANGED <<outExists, tempDirs, tempParts, envVars, tblVars>>
  /\ UNCHANGED <<cur, file_vec, fi, part, listing, entry, dest>>
  /\ UNCHANGED <<produced, producedTotal, flattenStart, snapshot, moved, tableDone>>

\* line 144: fs::remove_file(source), the return value of move_or_copy
RemoveFile ==
  /\ pc = "remove_file"
  /\ \/ /\ tempParts' = [tempParts EXCEPT ![cur][CurFile] = @ \ {entry}]
        /\ lastMove' = [ret |-> "Ok", step |-> "remove", dev |-> lastMove.dev]
        /\ pc' = "flatten"
        /\ result' = result
     \/ /\ Fail("IoError")
        /\ lastMove' = [ret |-> "Err", step |-> "remove", dev |-> lastMove.dev]
        /\ tempParts' = tempParts
  /\ UNCHANGED <<outExists, outParts, tempDirs, envVars, tblVars>>
  /\ UNCHANGED <<cur, file_vec, fi, part, listing, entry, dest>>
  /\ UNCHANGED <<produced, producedTotal, placedFile, flattenStart, snapshot, moved, tableDone>>

\* a slip in line 119: the temp area is left in place
RemoveTempKeep ==
  /\ pc = "remove_temp"
  /\ fi' = fi + 1
  /\ pc' = "next_file"
  /\ entry' = 0
  /\ dest' = 0
  /\ flattenStart' = part
  /\ snapshot' = {}
  /\ moved' = <<>>
  /\ lastMove' = NoMove
  /\ UNCHANGED <<fsVars, envVars, tblVars>>
  /\ UNCHANGED <<cur, file_vec, part, listing, result>>
  /\ UNCHANGED <<produced, producedTotal, placedFile, tableDone>>

\* lines 118-119: fs::remove_dir_all(output_parts_dir)?: on an error any of the
\* entries may already be gone; then the end of the body of the loop of line 90
RemoveTemp ==
  /\ pc = "remove_temp"
  /\ \/ /\ tempDirs' = [tempDirs EXCEPT ![cur] = @ \ {CurFile}]
        /\ tempParts' = [tempParts EXCEPT ![cur][CurFile] = {}]
        /\ fi' = fi + 1
        /\ pc' = "next_file"
        /\ result' = result
        /\ entry' = 0
        /\ dest' = 0
        /\ flattenStart' = part
        /\ snapshot' = {}
        /\ moved' = <<>>
        /\ lastMove' = NoMove
     \/ /\ \E left \in SUBSET tempParts[cur][CurFile] :
             tempParts' = [tempParts EXCEPT ![cur][CurFile] = left]
        /\ Fail("IoError")
        /\ UNCHANGED <<tempDirs, fi, entry, dest, flattenStart, snapshot, moved, lastMove>>
  /\ UNCHANGED <<outExists, outParts, envVars, tblVars>>
  /\ UNCHANGED <<cur, file_vec, part, listing>>
  /\ UNCHANGED <<produced, producedTotal, placedFile, tableDone>>

\* ------------------------------------------------------------ specification
Next ==
  \/ Validate
  \/ CreateDir
  \/ ReadInput
  \/ NextFile
  \/ Write
  \/ List
  \/ FlattenNext
  \/ IsSameDevice
  \/ Rename
  \/ Copy
  \/ RemoveFile
  \/ RemoveTemp

Spec == Init /\ [][Next]_vars

\* --------------------------------------------- convert_tbl on its own inputs
\* the state of convert_to_parquet before its first step, with no table to convert
\* left to the environment
InitTbl ==
  /\ outPre = [t \in Tables |-> FALSE]
  /\ inputKind = [t \in Tables |-> "dir"]
  /\ outExists = outPre
  /\ outParts = [t \in Tables |-> {}]
  /\ tempDirs = [t \in Tables |-> {}]
  /\ tempParts = [t \in Tables |-> [f \in FileIds |-> {}]]
  /\ cur = 1
  /\ pc = "validate"
  /\ file_vec = <<>>
  /\ fi = 1
  /\ part = 0
  /\ listing = {}
  /\ entry = 0
  /\ dest = 0
  /\ result = "running"
  /\ produced = [f \in FileIds |-> {}]
  /\ producedTotal = [t \in Tables |-> 0]
  /\ placedFile = {}
  /\ flattenStart = 0
  /\ snapshot = {}
  /\ moved = <<>>
  /\ lastMove = NoMove
  /\ tableDone = {}
  /\ declared \in Schemas(MaxCols)
  /\ readSchema = <<>>
  /\ fmt \in {"csv", "parquet", "orc"}
  /\ codec \in {"none", "snappy", "lz4", "lz0", "zstd"}
  /\ tblOut = <<>>
  /\ tblRead = FALSE
  /\ tblPc = "start"

\* lines 53-62 and 99-106: the options convert_to_parquet builds for a table and
\* the format and compression it passes
TblOptions ==
  /\ tblPc = "start"
  /\ fmt = "parquet"
  /\ codec = "snappy"
  /\ readSchema' = BuildReadSchema(declared)
  /\ tblPc' = "call"
  /\ UNCHANGED <<declared, fmt, codec, tblOut, tblRead>>
  /\ UNCHANGED <<fsVars, envVars, loopVars, histVars>>

\* lines 164-171: a caller of the public convert_tbl whose options carry the
\* table's columns as they are declared
TblOptionsDeclared ==
  /\ tblPc = "start"
  /\ readSchema' = declared
  /\ tblPc' = "call"
  /\ UNCHANGED <<declared, fmt, codec, tblOut, tblRead>>
  /\ UNCHANGED <<fsVars, envVars, loopVars, histVars>>

\* lines 185-232: read_csv (an Err ends the call), the selection, the match on the
\* format and the compression, and the write (an Err again);
\* len() - 1 of an empty schema panics in a build with overflow checks and wraps
\* in one without, where take(usize::MAX) keeps every field
convert_tbl ==
  /\ tblPc = "call"
  /\ \/ /\ tblPc' = "EngineError"
        /\ tblRead' = FALSE
        /\ tblOut' = <<>>
     \/ /\ Len(readSchema) = 0
        /\ tblPc' = "panic"
        /\ tblRead' = TRUE
        /\ tblOut' = <<>>
     \/ /\ FormatResult(fmt, codec) = "Ok"
        /\ tblOut' = Selection(readSchema)
        /\ tblRead' = TRUE
        /\ tblPc' = "written"
     \/ /\ FormatResult(fmt, codec) = "Ok"
        /\ tblOut' = <<>>
        /\ tblRead' = TRUE
        /\ tblPc' = "EngineError"
     \/ /\ FormatResult(fmt, codec) # "Ok"
        /\ tblOut' = <<>>
        /\ tblRead' = TRUE
        /\ tblPc' = "NotImplemented"
  /\ UNCHANGED <<declared, readSchema, fmt, codec>>
  /\ UNCHANGED <<fsVars, envVars, loopVars, histVars>>

NextTbl ==
  \/ TblOptions
  \/ TblOptionsDeclared
  \/ convert_tbl

SpecTbl == InitTbl /\ [][NextTbl]_vars

\* ------------------------------------------------------------------ claims
\* what the output directory of table t holds before the run
InitialParts(t) == IF outPre[t] THEN OldParts ELSE {}

\* the numbers of the complete parts of table cur that came from input file f
CompleteOf(f) == {q[1] : q \in {r \in placedFile : r[2] = f /\ [n |-> r[1], st |-> "complete"] \in outParts[cur]}}

\* the entries the current flatten has taken from the iterator
Taken == {moved[i][1] : i \in DOMAIN moved}

\* entry k of the current temp area has reached its destination and left the temp area
Relocated(i) ==
  /\ moved[i][1] \notin tempParts[cur][CurFile]
  /\ [n |-> moved[i][2], st |-> "complete"] \in outParts[cur]

\* C1: when convert_to_parquet has returned Ok, the output directory of every table
\* holds exactly as many part files as the writer produced for the table's input
\* files, all complete, numbered 0 .. sum-1 without gap or duplicate, whatever the
\* order in which the input files and the temp entries were enumerated.
C1_DenseParts ==
  /\ result = "Ok" => tableDone = Tables
  /\ \A t \in tableDone :
       /\ Numbers(outParts[t]) = 0..(producedTotal[t] - 1)
       /\ Cardinality(outParts[t]) = producedTotal[t]
       /\ \A p \in outParts[t] : p.st = "complete"

C1_Witness ==
  /\ result = "Ok"
  /\ file_vec = <<2, 1>>
  /\ producedTotal[NumTables] = 4
  /\ <<0, 2>> \in placedFile
  /\ <<3, 1>> \in placedFile

\* C2 as stated: when the run stops with the precondition error of a table whose
\* input path exists and whose output directory existed before the run, no part
\* file has been written by the run.
C2_Original ==
  (result = "PreconditionError" /\ outPre[cur] /\ inputKind[cur] # "absent") =>
    \A t \in Tables : outParts[t] = InitialParts(t)

\* C2 amended: a run in which the output directory of some table already exists
\* does not return Ok; when the loop reaches that table it stops with a precondition
\* error before anything is created, written or removed for that table or a later
\* one; the pre-existing directory keeps its contents throughout.
C2_Amended ==
  /\ \A t \in Tables : outPre[t] => (outExists[t] /\ outParts[t] = OldParts /\ tempDirs[t] = {})
  /\ (\E t \in Tables : outPre[t]) => result # "Ok"
  /\ outPre[cur] => pc \in {"validate", "stopped"}
  /\ (pc = "stopped" /\ outPre[cur]) =>
       /\ result = "PreconditionError"
       /\ \A t \in Tables : t >= cur =>
            (outExists[t] = outPre[t] /\ outParts[t] = InitialParts(t) /\ tempDirs[t] = {})

C2_Witness ==
  /\ result = "PreconditionError"
  /\ cur = 2
  /\ outPre[2]
  /\ ~outPre[1]
  /\ Cardinality(outParts[1]) = 2
  /\ outParts[2] = OldParts

\* C3: when the rename or the copy inside move_or_copy fails, then after the return
\* of the error the source still exists and the destination does not.
C3_NoPartialDest ==
  (lastMove.ret = "Err" /\ lastMove.step \in {"rename", "copy"}) =>
    (entry \in tempParts[cur][CurFile] /\ dest \notin Numbers(outParts[cur]))

\* C4: after every return of move_or_copy exactly one holds: the source is gone and
\* the destination exists, or the source is intact and the destination is absent.
C4_ExactlyOne ==
  lastMove.ret # "none" =>
    \/ (entry \notin tempParts[cur][CurFile] /\ dest \in Numbers(outParts[cur]))
    \/ (entry \in tempParts[cur][CurFile] /\ dest \notin Numbers(outParts[cur]))

\* C5: when convert_to_parquet has returned Ok, no temp area is left under any
\* table's output directory: the directories hold part files only.
C5_NoTempAfterOk ==
  result = "Ok" =>
    \A t \in Tables : tempDirs[t] = {} /\ \A f \in FileIds : tempParts[t][f] = {}

C5_Witness ==
  /\ result = "Ok"
  /\ Len(file_vec) = 2
  /\ Numbers(outParts[NumTables]) = 0..3
  /\ tempDirs[NumTables] = {}

\* C6: tables are taken in the order of get_table_names, one at a time, and the first
\* failure ends the run: every step is taken while the run has not returned, touches
\* the directory of the current table only, moves to the next table only when the
\* files of the current one are exhausted, and returns Ok only past the last table.
C6_FailFast ==
  [][/\ result = "running"
     /\ pc # "stopped"
     /\ cur' \in {cur, cur + 1}
     /\ cur' = cur + 1 => (pc = "next_file" /\ fi > Len(file_vec) /\ tableDone' = tableDone \cup {cur})
     /\ cur' = cur => (tableDone' = tableDone \/ (result' = "Ok" /\ cur = NumTables))
     /\ \A t \in Tables \ {cur} :
          /\ outExists'[t] = outExists[t]
          /\ outParts'[t] = outParts[t]
          /\ tempDirs'[t] = tempDirs[t]
          /\ tempParts'[t] = tempParts[t]
     /\ result' # "running" => pc' = "stopped"
     /\ result' \notin {"running", "Ok"} =>
          (cur' = cur /\ fi' = fi /\ file_vec' = file_vec /\ part' = part /\ tableDone' = tableDone)
    ]_vars

C6_Witness ==
  /\ result = "IoError"
  /\ cur = 1
  /\ Len(file_vec) = 2
  /\ fi = 1
  /\ Cardinality(outParts[1]) = 1
  /\ ~outExists[2]
  /\ tableDone = {}

\* C7: a table whose input path is absent or is not a directory is never converted:
\* its output directory is not created and its loop body never runs to its end.
C7_NonDirectoryFails ==
  \A t \in Tables : inputKind[t] # "dir" => (outExists[t] = outPre[t] /\ t \notin tableDone)

\* C8: what convert_tbl writes is the table's declared column list, for the read
\* schema built by convert_to_parquet and for any other read schema it is given.
C8_WritesDeclared ==
  tblPc = "written" => tblOut = declared

\* C9: the flatten loop skips no entry and stops at the first error: the entries
\* taken from the iterator and the entries it still holds are the entries listed,
\* every entry taken before the last one is relocated, an entry not taken is still
\* in the temp area, when the loop ends all entries listed are relocated, and the
\* numbers issued are the consecutive integers from the counter at entry to the
\* counter at exit minus one, in the order taken.
C9_FlattenNoSkip ==
  /\ Taken \cup listing = snapshot
  /\ Taken \cap listing = {}
  /\ Cardinality(Taken) = Len(moved)
  /\ \A i \in DOMAIN moved : moved[i][2] = flattenStart + i - 1
  /\ part = flattenStart + Len(moved)
  /\ \A i \in DOMAIN moved : i < Len(moved) => Relocated(i)
  /\ \A k \in listing : k \in tempParts[cur][CurFile]
  /\ pc = "remove_temp" => (listing = {} /\ \A i \in DOMAIN moved : Relocated(i))
  /\ pc \in {"same_device", "rename", "copy", "remove_file"} =>
       (moved # <<>> /\ moved[Len(moved)] = <<entry, dest>>)

C9_Witness ==
  /\ pc = "stopped"
  /\ result = "IoError"
  /\ Len(moved) = 1
  /\ listing # {}
  /\ flattenStart = 2
  /\ lastMove.ret = "Err"

\* C10: no part is lost: every part the writer has produced for the table being
\* converted is complete in its temp area or complete in the output directory,
\* also after a failed rename, copy, source deletion or temp removal; the source
\* of a relocation is in place until the copy has succeeded; the parts of finished
\* input files and finished tables stay complete in the output directory.
C10_NoDataLoss ==
  /\ fi <= Len(file_vec) =>
       \A k \in produced[CurFile] :
         \/ k \in tempParts[cur][CurFile]
         \/ \E i \in DOMAIN moved : moved[i][1] = k /\ [n |-> moved[i][2], st |-> "complete"] \in outParts[cur]
  /\ \A j \in DOMAIN file_vec : j < fi =>
       Cardinality(CompleteOf(file_vec[j])) = Cardinality(produced[file_vec[j]])
  /\ \A t \in tableDone :
       Cardinality({p \in outParts[t] : p.st = "complete"}) = producedTotal[t]
  /\ pc = "copy" => entry \in tempParts[cur][CurFile]
  /\ (lastMove.ret = "Err" /\ lastMove.step = "copy") => entry \in tempParts[cur][CurFile]

C10_Witness ==
  /\ result = "IoError"
  /\ lastMove.ret = "Err"
  /\ lastMove.step = "copy"
  /\ Cardinality(produced[CurFile]) = 2
  /\ Len(moved) = 2
  /\ Cardinality(tempParts[cur][CurFile]) = 1
  /\ [n |-> dest, st |-> "partial"] \in outParts[cur]

\* the positions that may follow position a inside one table's conversion
Successors(a) ==
  CASE a = "validate" -> {"create_dir"}
    [] a = "create_dir" -> {"read_input"}
    [] a = "read_input" -> {"next_file"}
    [] a = "next_file" -> {"write", "validate"}
    [] a = "write" -> {"list"}
    [] a = "list" -> {"flatten"}
    [] a = "flatten" -> {"same_device", "remove_temp"}
    [] a = "same_device" -> {"rename", "copy"}
    [] a = "rename" -> {"flatten"}
    [] a = "copy" -> {"remove_file"}
    [] a = "remove_file" -> {"flatten"}
    [] a = "remove_temp" -> {"next_file"}
    [] OTHER -> {}

\* the only temp area that exists is the one of the input file being processed,
\* and none exists when the writer is about to be invoked
TempOwned ==
  /\ \A t \in Tables : tempDirs[t] # {} =>
       /\ t = cur
       /\ fi <= Len(file_vec)
       /\ tempDirs[t] = {CurFile}
       /\ pc \in {"list", "flatten", "same_device", "rename", "copy", "remove_file", "remove_temp", "stopped"}
  /\ \A t \in Tables : \A f \in FileIds : tempParts[t][f] # {} => f \in tempDirs[t]
  /\ pc \in {"validate", "create_dir", "read_input", "next_file", "write"} =>
       \A t \in Tables : tempDirs[t] = {}

\* C11: every table goes through Validate, CreateOutputDir, then per input file
\* WriteTemp, Flatten, CleanupTemp, one after the other; the next table is started
\* only from the end of the file loop; at every moment at most one temp area exists
\* and it is the one of the input file being processed, removed before the writer is
\* invoked for the next input file.
C11_Sequential ==
  [][/\ pc' \in Successors(pc) \cup {"stopped"}
     /\ (pc = "next_file" /\ pc' = "validate") <=> cur' = cur + 1
     /\ (pc = "next_file" /\ pc' = "write") => (fi' = fi /\ cur' = cur)
     /\ fi' # fi => \/ (pc = "remove_temp" /\ fi' = fi + 1)
                    \/ (fi' = 1 /\ pc \in {"read_input", "next_file"})
     /\ TempOwned
     /\ TempOwned'
    ]_vars

C11_Witness ==
  /\ pc = "list"
  /\ fi = 2
  /\ tempDirs[cur] = {file_vec[2]}
  /\ Cardinality(outParts[cur]) = 2
  /\ tempParts[cur][file_vec[1]] = {}

\* the place of input file f in the enumeration of line 82
FilePos(f) == CHOOSE i \in DOMAIN file_vec : file_vec[i] = f

\* the numbers given so far in the table being converted follow the order of the
\* input files and, inside the current file, the order of its temp entries
NumbersOrdered ==
  /\ \A q \in placedFile : \A r \in placedFile : FilePos(q[2]) < FilePos(r[2]) => q[1] < r[1]
  /\ \A q \in placedFile : FilePos(q[2]) < fi => q[1] < flattenStart
  /\ \A i \in DOMAIN moved : \A j \in DOMAIN moved : i < j => moved[i][2] < moved[j][2]
  /\ \A i \in DOMAIN moved : flattenStart <= moved[i][2] /\ moved[i][2] < part

\* C12: inside a table a part relocated later gets a larger number: the parts of an
\* earlier input file are numbered below those of a later one, the parts of one file
\* in the order its temp area is enumerated; the counter is set to 0 when a table's
\* files are listed and is never decreased while that table is converted.
C12_NumberOrder ==
  [][/\ NumbersOrdered
     /\ NumbersOrdered'
     /\ pc = "read_input" => part' = 0
     /\ (pc # "read_input" /\ cur' = cur) => part' >= part
     /\ cur' # cur => part' = 0
     /\ outParts'[cur] # outParts[cur] =>
          /\ Numbers(outParts'[cur]) \ Numbers(outParts[cur]) = {dest}
          /\ \A m \in Numbers(outParts[cur]) : m < dest
    ]_vars

C12_Witness ==
  /\ pc = "remove_temp"
  /\ file_vec = <<2, 1>>
  /\ fi = 2
  /\ moved = <<<<2, 2>>, <<1, 3>>>>
  /\ placedFile = {<<0, 2>>, <<1, 2>>, <<2, 1>>, <<3, 1>>}

\* C13: a temp area does not outlive the processing of its input file: none exists
\* once the run has stopped, whether it returned Ok or an error.
C13_TempRemovedAlways ==
  pc = "stopped" => \A t \in Tables : tempDirs[t] = {}

\* the compression names the match of lines 202-216 accepts
SupportedCodecs == {"none", "snappy", "lz4", "lz0"}

\* C14: when convert_tbl, given a read schema of at least one column, returns the
\* configuration error for an unsupported format or compression, the engine has not
\* been run on the input file.
C14_ConfigBeforeIo ==
  (tblPc = "NotImplemented" /\ Len(readSchema) > 0) => ~tblRead

\* C15: convert_tbl, given a read schema of at least one column, writes only when the format is one of the two supported ones and
\* the compression is one of the supported codecs, whatever the format is.
C15_CodecChecked ==
  (tblPc = "written" /\ Len(readSchema) > 0) => (fmt \in {"csv", "parquet"} /\ codec \in SupportedCodecs)

\* C16: move_or_copy renames when the device check says same device, and copies and
\* then deletes the source when it says different devices or when the check fails;
\* the source is deleted only after the copy has succeeded.
C16_PathByDevice ==
  /\ pc = "rename" => lastMove.dev = "same"
  /\ pc \in {"copy", "remove_file"} => lastMove.dev \in {"different", "Err"}
  /\ lastMove.step = "rename" => lastMove.dev = "same"
  /\ lastMove.step \in {"copy", "remove"} => lastMove.dev \in {"different", "Err"}
  /\ lastMove.dev = "Err" => (pc \in {"copy", "remove_file"} \/ lastMove.step \in {"copy", "remove"})
  /\ (pc = "remove_file" \/ lastMove.step = "remove") =>
       [n |-> dest, st |-> "complete"] \in outParts[cur]

\* C17: the output directory of a table only grows: a step of the run leaves every
\* part file in place and unchanged, and a relocation writes to a number that no
\* part of the directory has.
C17_OnlyGrows ==
  [][/\ \A t \in Tables : outParts[t] \subseteq outParts'[t]
     /\ \A t \in Tables : outExists[t] => outExists'[t]
     /\ pc \in {"rename", "copy"} => dest \notin Numbers(outParts[cur])
     /\ \A t \in Tables : Cardinality(Numbers(outParts'[t])) = Cardinality(outParts'[t])
    ]_vars

C17_Witness ==
  /\ pc = "copy"
  /\ dest = 3
  /\ Numbers(outParts[cur]) = 0..2
  /\ cur = 2
  /\ Cardinality(outParts[1]) = 1

\* C18: in a directory the run created the part numbers are 0 .. m-1 with m at most
\* the counter, in every state, the one an abort leaves included: the counter is
\* advanced before the relocation it numbers is attempted, and a failed relocation
\* leaves no part above a missing number.
C18_PrefixNumbers ==
  /\ \A t \in Tables : ~outPre[t] =>
       Numbers(outParts[t]) = 0..(Cardinality(outParts[t]) - 1)
  /\ ~outPre[cur] => Cardinality(outParts[cur]) <= part
  /\ \A t \in tableDone : Cardinality(outParts[t]) = producedTotal[t]

C18_Witness ==
  /\ pc = "stopped"
  /\ result = "IoError"
  /\ lastMove.ret = "Err"
  /\ lastMove.step = "rename"
  /\ part = 2
  /\ Numbers(outParts[cur]) = {0}

====
